---- MODULE Spec2Model ----
(***************************************************************************)
(* Two screens of the workspace.                                           *)
(*                                                                         *)
(* Knowledge.svelte: debounced search text, immediate filter change,       *)
(* manual "Load More" paging and the asynchronous page fetches behind      *)
(* them (specification Spec).                                              *)
(*                                                                         *)
(* Chats.svelte: the whole collection loaded once, filtered and sorted     *)
(* locally (SpecChats); applyFiltersAndSort() taken alone (SpecView); the  *)
(* tag diff of saveTag() taken alone (SpecDiff); tag editing with its      *)
(* commit against the single-tag API (SpecTags), and the same with the     *)
(* save button pressed more than once (SpecRecommit).                      *)
(*                                                                         *)
(* Every handler runs to its first await in one step (the event loop is    *)
(* single-threaded); what follows an await is a later step, taken when     *)
(* the request resolves or rejects.  Svelte flushes the reactive `$:`      *)
(* blocks in a microtask right after the assignment that invalidated       *)
(* them, so a change of a variable and its reactive block form one step.   *)
(***************************************************************************)
EXTENDS Integers, Sequences, FiniteSets, TLC

\* ---------------------------------------------------------------- bounds
NumRecords == 3
PageSize == 1
MaxRequests == 3
MaxTimers == 2

Texts == {"", "a"}
ViewOptions == {"", "created"}
Records == 1..NumRecords

\* ------------------------------------------------------------- JS values
\* `items` is null, undefined or an array; `total` is null, undefined or a number.
NullItems == [tag |-> "null", arr |-> <<>>]
UndefinedItems == [tag |-> "undefined", arr |-> <<>>]
ArrayItems(s) == [tag |-> "array", arr |-> s]
NullTotal == [tag |-> "null", n |-> 0]
UndefinedTotal == [tag |-> "undefined", n |-> 0]
NumberTotal(k) == [tag |-> "number", n |-> k]
\* `if (items)`: null and undefined are falsy, every array (the empty one too) is truthy
Truthy(v) == v.tag = "array"
\* the value of `let searchDebounceTimer = null`
NoTimer == 0

VARIABLES
    \* component state, Knowledge.svelte lines 30-51
    loaded, page, query, viewOption, items, total,
    allItemsLoaded, itemsLoading, hasLoadedInitialPage,
    searchDebounceTimer, lastQuery, lastViewOption, isInitialLoad,
    \* the runtime around the component
    timers,               \* ids of the setTimeout timers that are pending
    nextTimer,            \* the id the next setTimeout returns
    inflight,             \* searchKnowledgeBases calls that have not settled
    nextReq,              \* 1 + the number of requests sent so far
    db,                   \* the records the server holds
    toast,                \* the toast the last step raised, "none" if none
    destroyed,            \* onDestroy has run
    \* history, read by the properties only
    epoch,                \* number of reset() calls so far
    lastPageCount,        \* items of the page applied last since reset(), -1: none
    burstLen,             \* text changes since the debounce timer was last idle
    burstFetches,         \* fetches issued by the timer for that burst
    lastCall,             \* the user operation the last step invoked, if any
    failedQueries         \* the text and filter of every request that has rejected

VARIABLES
    \* component state, Chats.svelte lines 44-60 (`loaded`, `query` and
    \* `searchDebounceTimer` carry the screen's name here)
    chatsLoaded, chatsQuery, sortBy, sortOrder, allChatsData, allTags,
    filteredChats, editingTagChatId, selectedTagsForChat, chatsDebounceTimer,
    \* the runtime around the component
    chatsTimers,          \* ids of the setTimeout timers that are pending
    chatsNextTimer,       \* the id the next setTimeout returns
    initPhase,            \* how far init() has come
    serverChats,          \* the chat list the server holds
    serverTags,           \* the tag list the server holds for each chat
    commits,              \* the saveTag() calls that have not returned
    nextCommit,           \* 1 + the number of saveTag() calls so far
    chatsToast,           \* the toast the last step raised, "none" if none
    lastEvent,            \* the request of a saveTag() call the last step settled
    chatsDestroyed,       \* the component has been destroyed
    \* history
    chatsBurstLen,        \* text changes since the debounce timer was last idle
    chatsBurstRuns,       \* runs of the debounce callback for that burst
    appliedQuery,         \* the text the last applyFiltersAndSort() read
    succeeded,            \* the chats whose last finished saveTag() reported success
    \* the tag diff and the derived view, each taken alone
    diffIn, diffOut, viewIn, viewOut

knowledgeVars == <<loaded, page, query, viewOption, items, total, allItemsLoaded,
                   itemsLoading, hasLoadedInitialPage, searchDebounceTimer,
                   lastQuery, lastViewOption, isInitialLoad, timers, nextTimer,
                   inflight, nextReq, db, toast, destroyed, epoch, lastPageCount,
                   burstLen, burstFetches, lastCall, failedQueries>>

chatsBurstVars == <<chatsBurstLen, chatsBurstRuns>>
listVars == <<chatsLoaded, chatsQuery, sortBy, sortOrder, filteredChats,
              chatsDebounceTimer, chatsTimers, chatsNextTimer, initPhase,
              serverChats, chatsDestroyed, chatsBurstVars, appliedQuery>>
tagVars == <<allChatsData, allTags, editingTagChatId, selectedTagsForChat,
             serverTags, commits, nextCommit, chatsToast, lastEvent, succeeded>>
tagVarsButToast == <<allChatsData, allTags, editingTagChatId,
                     selectedTagsForChat, serverTags, commits, nextCommit,
                     lastEvent, succeeded>>
diffVars == <<diffIn, diffOut, viewIn, viewOut>>
chatsVars == <<listVars, tagVars, diffVars>>

vars == <<knowledgeVars, chatsVars>>

pageVars == <<page, items, total, allItemsLoaded, itemsLoading,
              hasLoadedInitialPage, inflight, nextReq, epoch, lastPageCount>>
timerVars == <<searchDebounceTimer, timers, nextTimer>>
burstVars == <<burstLen, burstFetches>>
mountVars == <<loaded, isInitialLoad>>
queryVars == <<query, lastQuery>>
viewVars == <<viewOption, lastViewOption>>

\* ------------------------------------------------------------ the server
\* searchRecords(queryText, filterToken, page) -> {items, total}: server-side
\* filtered, counted and paged.
MatchesText(r, q) ==
    CASE q = ""  -> TRUE
      [] q = "a" -> r >= 2

MatchesView(r, v) ==
    CASE v = ""        -> TRUE
      [] v = "created" -> r % 2 = 1

RECURSIVE SetToSeq(_)
SetToSeq(S) ==
    IF S = {} THEN <<>>
    ELSE LET m == CHOOSE x \in S : \A y \in S : x <= y
         IN  <<m>> \o SetToSeq(S \ {m})

Matching(d, q, v) == SetToSeq({r \in d : MatchesText(r, q) /\ MatchesView(r, v)})

PageOf(list, p) ==
    LET first == (p - 1) * PageSize + 1
        last  == IF p * PageSize < Len(list) THEN p * PageSize ELSE Len(list)
    IN  IF first > last THEN <<>> ELSE SubSeq(list, first, last)

SearchResponse(d, q, v, p) ==
    [items |-> PageOf(Matching(d, q, v), p), total |-> Len(Matching(d, q, v))]

\* a call in flight: its arguments, and the epoch it was made in
Request(q, v, p, e) ==
    [query |-> q, viewOption |-> v, page |-> p, epoch |-> e]

\* ------------------------------------------------------------- helpers
\* debounceSearch that starts the new timer and leaves the old one running
debounceSearch_NoClear ==
    /\ nextTimer <= MaxTimers
    /\ timers' = timers \cup {nextTimer}
    /\ searchDebounceTimer' = nextTimer
    /\ nextTimer' = nextTimer + 1

\* debounceSearch(callback, 500): clear the timer the handle names, start a new one
debounceSearch ==
    /\ nextTimer <= MaxTimers
    /\ timers' = (IF searchDebounceTimer # NoTimer
                  THEN timers \ {searchDebounceTimer} ELSE timers) \cup {nextTimer}
    /\ searchDebounceTimer' = nextTimer
    /\ nextTimer' = nextTimer + 1

\* reset() without `page = 1`
reset_KeepPage ==
    /\ page' = page
    /\ items' = NullItems
    /\ total' = NullTotal
    /\ allItemsLoaded' = FALSE
    /\ hasLoadedInitialPage' = FALSE
    /\ epoch' = epoch + 1
    /\ lastPageCount' = -1

\* reset(); its `itemsLoading = false` is overwritten by getItemsPage in the same run
reset ==
    /\ page' = 1
    /\ items' = NullItems
    /\ total' = NullTotal
    /\ allItemsLoaded' = FALSE
    /\ hasLoadedInitialPage' = FALSE
    /\ epoch' = epoch + 1
    /\ lastPageCount' = -1

\* getItemsPage() up to its await: raise the flag and send the request
getItemsPage(q, v, p, e) ==
    /\ nextReq <= MaxRequests
    /\ itemsLoading' = TRUE
    /\ inflight' = inflight \cup {Request(q, v, p, e)}
    /\ nextReq' = nextReq + 1

\* init(): reset() then getItemsPage(), which reads the page reset() has just set
init(q, v) ==
    /\ reset
    /\ getItemsPage(q, v, page', epoch')

\* the early returns without the test of allItemsLoaded
CanLoadMore_IgnoringExhausted ==
    /\ ~itemsLoading
    /\ ~(~hasLoadedInitialPage \/ items.tag = "null")

\* the two early returns of loadMoreItems(): TRUE when neither is taken
CanLoadMore ==
    /\ ~(allItemsLoaded \/ itemsLoading)
    /\ ~(~hasLoadedInitialPage \/ items.tag = "null")

\* loadMoreItems()
loadMoreItems ==
    IF ~CanLoadMore
    THEN UNCHANGED pageVars
    ELSE /\ page' = page + 1
         /\ getItemsPage(query, viewOption, page + 1, epoch)
         /\ UNCHANGED <<items, total, allItemsLoaded, hasLoadedInitialPage,
                        epoch, lastPageCount>>

\* the template: the list, and under it the "Load More" button
LoadMoreOffered ==
    /\ loaded
    /\ items.tag # "null" /\ total.tag # "null"
    /\ Len(items.arr) # 0
    /\ ~allItemsLoaded

\* ------------------------------------------------------------- actions
\* the component as declared, whatever the knowledge bases the server holds
InitComponent ==
    /\ loaded = FALSE
    /\ page = 1
    /\ query = ""
    /\ viewOption = ""
    /\ items = NullItems
    /\ total = NullTotal
    /\ allItemsLoaded = FALSE
    /\ itemsLoading = FALSE
    /\ hasLoadedInitialPage = FALSE
    /\ searchDebounceTimer = NoTimer
    /\ lastQuery = ""
    /\ lastViewOption = ""
    /\ isInitialLoad = TRUE
    /\ timers = {}
    /\ nextTimer = 1
    /\ inflight = {}
    /\ nextReq = 1
    /\ toast = "none"
    /\ destroyed = FALSE
    /\ epoch = 0
    /\ lastPageCount = -1
    /\ burstLen = 0
    /\ burstFetches = 0
    /\ lastCall = "none"
    /\ failedQueries = {}

\* the component as declared, beside a server that holds every record
Init ==
    /\ InitComponent
    /\ db = Records

\* onMount; `stored` is what localStorage holds as the view option, or ''
OnMount(stored) ==
    /\ UNCHANGED chatsVars
    /\ ~loaded /\ ~destroyed
    /\ viewOption' = stored
    /\ lastViewOption' = stored
    /\ lastQuery' = query
    /\ isInitialLoad' = FALSE
    /\ loaded' = TRUE
    /\ init(query, stored)
    /\ toast' = "none"
    /\ lastCall' = "none"
    /\ UNCHANGED <<query, timerVars, db, destroyed, burstVars, failedQueries>>

\* the reactive block on `query` without its comparison with lastQuery
QueryChanged_NoCompare(t) ==
    /\ UNCHANGED chatsVars
    /\ loaded /\ ~destroyed
    /\ query' = t
    /\ IF loaded /\ ~isInitialLoad
       THEN /\ lastQuery' = t
            /\ debounceSearch
            /\ IF timers = {}
               THEN burstLen' = 1 /\ burstFetches' = 0
               ELSE burstLen' = burstLen + 1 /\ UNCHANGED burstFetches
       ELSE UNCHANGED <<lastQuery, timerVars, burstVars>>
    /\ toast' = "none"
    /\ lastCall' = "query"
    /\ UNCHANGED <<mountVars, viewVars, pageVars, db, destroyed, failedQueries>>

\* the search box (bind:value, the clear button) and the reactive block on `query`
QueryChanged(t) ==
    /\ UNCHANGED chatsVars
    /\ loaded /\ ~destroyed
    /\ query' = t
    /\ IF loaded /\ ~isInitialLoad /\ t # lastQuery
       THEN /\ lastQuery' = t
            /\ debounceSearch
            /\ IF timers = {}
               THEN burstLen' = 1 /\ burstFetches' = 0
               ELSE burstLen' = burstLen + 1 /\ UNCHANGED burstFetches
       ELSE UNCHANGED <<lastQuery, timerVars, burstVars>>
    /\ toast' = "none"
    /\ lastCall' = "query"
    /\ UNCHANGED <<mountVars, viewVars, pageVars, db, destroyed, failedQueries>>

\* the callback handed to debounceSearch, run when its timer elapses
TimerFired(id) ==
    /\ UNCHANGED chatsVars
    /\ id \in timers
    /\ timers' = timers \ {id}
    /\ IF query = lastQuery
       THEN /\ init(query, viewOption)
            /\ burstFetches' = burstFetches + 1
       ELSE UNCHANGED <<pageVars, burstFetches>>
    /\ toast' = "none"
    /\ lastCall' = "none"
    /\ UNCHANGED <<mountVars, queryVars, viewVars, searchDebounceTimer,
                   nextTimer, db, destroyed, burstLen, failedQueries>>

\* the reactive block on `viewOption` without its clearTimeout
ViewOptionChanged_NoCancel(v) ==
    /\ UNCHANGED chatsVars
    /\ loaded /\ ~destroyed
    /\ viewOption' = v
    /\ IF loaded /\ v # lastViewOption /\ ~isInitialLoad
       THEN /\ lastViewOption' = v
            /\ burstLen' = 0 /\ burstFetches' = 0
            /\ init(query, v)
            /\ UNCHANGED <<timers, searchDebounceTimer>>
       ELSE UNCHANGED <<lastViewOption, timers, searchDebounceTimer, burstVars,
                        pageVars>>
    /\ toast' = "none"
    /\ lastCall' = "viewOption"
    /\ UNCHANGED <<mountVars, queryVars, nextTimer, db, destroyed, failedQueries>>

\* ViewSelector (bind:value) and the reactive block on `viewOption`
ViewOptionChanged(v) ==
    /\ UNCHANGED chatsVars
    /\ loaded /\ ~destroyed
    /\ viewOption' = v
    /\ IF loaded /\ v # lastViewOption /\ ~isInitialLoad
       THEN /\ lastViewOption' = v
            /\ IF searchDebounceTimer # NoTimer
               THEN /\ timers' = timers \ {searchDebounceTimer}
                    /\ searchDebounceTimer' = NoTimer
               ELSE UNCHANGED <<timers, searchDebounceTimer>>
            /\ burstLen' = 0 /\ burstFetches' = 0
            /\ init(query, v)
       ELSE UNCHANGED <<lastViewOption, timers, searchDebounceTimer, burstVars,
                        pageVars>>
    /\ toast' = "none"
    /\ lastCall' = "viewOption"
    /\ UNCHANGED <<mountVars, queryVars, nextTimer, db, destroyed, failedQueries>>

\* a call of loadMoreItems()
LoadMoreCall ==
    /\ UNCHANGED chatsVars
    /\ loaded /\ ~destroyed
    /\ loadMoreItems
    /\ toast' = "none"
    /\ lastCall' = "loadMoreItems"
    /\ UNCHANGED <<mountVars, queryVars, viewVars, timerVars, db, destroyed,
                   burstVars, failedQueries>>

\* a click on the "Load More" button
LoadMoreClick ==
    /\ UNCHANGED chatsVars
    /\ ~destroyed
    /\ LoadMoreOffered
    /\ ~itemsLoading
    /\ loadMoreItems
    /\ toast' = "none"
    /\ lastCall' = "loadMoreItems"
    /\ UNCHANGED <<mountVars, queryVars, viewVars, timerVars, db, destroyed,
                   burstVars, failedQueries>>

\* getItemsPage() that leaves itemsLoading raised when its request resolves
FetchResolved_KeepLoading(r) ==
    /\ UNCHANGED chatsVars
    /\ r \in inflight
    /\ inflight' = inflight \ {r}
    /\ LET res == SearchResponse(db, r.query, r.viewOption, r.page)
           pageItems == res.items
           newItems == IF Truthy(items) THEN items.arr \o pageItems ELSE pageItems
       IN  /\ total' = NumberTotal(res.total)
           /\ items' = ArrayItems(newItems)
           /\ allItemsLoaded' = (Len(pageItems) = 0 \/ Len(newItems) >= res.total)
           /\ lastPageCount' = Len(pageItems)
    /\ hasLoadedInitialPage' = IF page = 1 THEN TRUE ELSE hasLoadedInitialPage
    /\ itemsLoading' = itemsLoading
    /\ toast' = "none"
    /\ lastCall' = "none"
    /\ UNCHANGED <<mountVars, queryVars, viewVars, timerVars, page, nextReq,
                   db, destroyed, epoch, burstVars, failedQueries>>

\* getItemsPage() after its await, the request having resolved
FetchResolved(r) ==
    /\ UNCHANGED chatsVars
    /\ r \in inflight
    /\ inflight' = inflight \ {r}
    /\ LET res == SearchResponse(db, r.query, r.viewOption, r.page)
           pageItems == res.items
           newItems == IF Truthy(items) THEN items.arr \o pageItems ELSE pageItems
       IN  /\ total' = NumberTotal(res.total)
           /\ items' = ArrayItems(newItems)
           /\ allItemsLoaded' = (Len(pageItems) = 0 \/ Len(newItems) >= res.total)
           /\ lastPageCount' = Len(pageItems)
    /\ hasLoadedInitialPage' = IF page = 1 THEN TRUE ELSE hasLoadedInitialPage
    /\ itemsLoading' = FALSE
    /\ toast' = "none"
    /\ lastCall' = "none"
    /\ UNCHANGED <<mountVars, queryVars, viewVars, timerVars, page, nextReq,
                   db, destroyed, epoch, burstVars, failedQueries>>

\* getItemsPage() after its await, the request having rejected: the catch
\* handler turns the rejection into `[]`, which is truthy and has neither
\* `total` nor `items`; spreading the missing `items` into a list throws
FetchFailed(r) ==
    /\ UNCHANGED chatsVars
    /\ r \in inflight
    /\ inflight' = inflight \ {r}
    /\ total' = UndefinedTotal
    /\ IF Truthy(items)
       THEN UNCHANGED <<items, allItemsLoaded, hasLoadedInitialPage,
                        itemsLoading, lastPageCount>>
       ELSE /\ items' = UndefinedItems
            /\ allItemsLoaded' = TRUE
            /\ hasLoadedInitialPage' = IF page = 1 THEN TRUE ELSE hasLoadedInitialPage
            /\ itemsLoading' = FALSE
            /\ lastPageCount' = 0
    /\ failedQueries' = failedQueries \cup {<<r.query, r.viewOption>>}
    /\ toast' = "none"
    /\ lastCall' = "none"
    /\ UNCHANGED <<mountVars, queryVars, viewVars, timerVars, page, nextReq,
                   db, destroyed, epoch, burstVars>>

\* deleteHandler(item), the delete having succeeded
DeleteSucceeded(item) ==
    /\ UNCHANGED chatsVars
    /\ loaded /\ ~destroyed
    /\ \E i \in 1..Len(items.arr) : items.arr[i] = item
    /\ item \in db
    /\ db' = db \ {item}
    /\ toast' = "success"
    /\ init(query, viewOption)
    /\ lastCall' = "none"
    /\ UNCHANGED <<mountVars, queryVars, viewVars, timerVars, destroyed,
                   burstVars, failedQueries>>

\* deleteHandler(item), the delete having failed
DeleteFailed(item) ==
    /\ UNCHANGED chatsVars
    /\ loaded /\ ~destroyed
    /\ \E i \in 1..Len(items.arr) : items.arr[i] = item
    /\ toast' = "error"
    /\ lastCall' = "none"
    /\ UNCHANGED <<mountVars, queryVars, viewVars, timerVars, pageVars, db,
                   destroyed, burstVars, failedQueries>>

OnDestroy ==
    /\ UNCHANGED chatsVars
    /\ loaded /\ ~destroyed
    /\ IF searchDebounceTimer # NoTimer
       THEN /\ timers' = timers \ {searchDebounceTimer}
            /\ searchDebounceTimer' = NoTimer
       ELSE UNCHANGED <<timers, searchDebounceTimer>>
    /\ destroyed' = TRUE
    /\ burstLen' = 0 /\ burstFetches' = 0
    /\ toast' = "none"
    /\ lastCall' = "none"
    /\ UNCHANGED <<mountVars, queryVars, viewVars, nextTimer, pageVars, db, failedQueries>>

\* ============================================================ Chats.svelte
\* The Chats screen: the whole collection is loaded once by init(), filtered
\* and sorted locally (text debounced, sort immediate), and the tags of a chat
\* are edited and committed by saveTag().  A string is the sequence of its
\* characters; an array is a sequence.
MaxChatsTimers == 3

ChatIds == {1, 2, 3}
\* the value of `let editingTagChatId = null`
NoChat == 0

ChatTexts == {<<>>, <<"A">>, <<" ">>}
SortKeys == {"date", "model", "tag"}
SortOrders == {"asc", "desc"}

\* what getChatList and getChatById return: the collection, in the server's order
TheChats ==
    << [id |-> 1, title |-> <<"A", "b">>, updated_at |-> 2, models |-> << <<"b">> >>],
       [id |-> 2, title |-> <<"b">>, updated_at |-> 1, models |-> << <<"a">>, <<"b">> >>],
       [id |-> 3, title |-> <<>>, updated_at |-> 2, models |-> << >>] >>

\* what getTagsById returns for each chat when the screen is opened
TheTags == [c \in ChatIds |-> CASE c = 1 -> << <<"a">> >>
                                [] c = 2 -> << <<"b">>, <<"a">> >>
                                [] c = 3 -> << <<" ", "a">> >>]

\* a collection of two chats to edit the tags of, and their tags: each chat
\* carries a tag the other can be given
TheTaggedChats ==
    << [id |-> 1, title |-> <<"a">>, updated_at |-> 2, models |-> << >>],
       [id |-> 2, title |-> <<"b">>, updated_at |-> 1, models |-> << >>] >>

TheTaggedTags == [c \in ChatIds |-> CASE c = 1 -> << <<"a">> >>
                                      [] c = 2 -> << <<"b">> >>
                                      [] c = 3 -> << >>]

\* the enrichment requests that may reject: none, or those of chat 2
EnrichFailures == {{}, {2}}

\* ------------------------------------------------------------ JS strings
toLowerCase(s) == [i \in 1..Len(s) |-> IF s[i] = "A" THEN "a" ELSE s[i]]

RECURSIVE trimStart(_)
trimStart(s) == IF s # <<>> /\ Head(s) = " " THEN trimStart(Tail(s)) ELSE s

RECURSIVE trimEnd(_)
trimEnd(s) ==
    IF s # <<>> /\ s[Len(s)] = " " THEN trimEnd(SubSeq(s, 1, Len(s) - 1)) ELSE s

trim(s) == trimEnd(trimStart(s))

\* String.prototype.includes
stringIncludes(s, sub) ==
    \E i \in 0..(Len(s) - Len(sub)) : SubSeq(s, i + 1, i + Len(sub)) = sub

\* the elements of an array
Elements(list) == {list[i] : i \in 1..Len(list)}

\* Array.prototype.includes
arrayIncludes(list, x) == \E i \in 1..Len(list) : list[i] = x

\* Array.prototype.join(' ')
RECURSIVE join(_)
join(list) ==
    IF list = <<>> THEN <<>>
    ELSE IF Len(list) = 1 THEN list[1]
    ELSE list[1] \o <<" ">> \o join(Tail(list))

\* the collation order of the characters in use
CharRank(c) ==
    CASE c = " " -> 0
      [] c = "a" -> 1
      [] c = "A" -> 2
      [] c = "b" -> 3

\* String.prototype.localeCompare: negative, zero or positive
RECURSIVE localeCompare(_, _)
localeCompare(a, b) ==
    IF a = <<>> /\ b = <<>> THEN 0
    ELSE IF a = <<>> THEN -1
    ELSE IF b = <<>> THEN 1
    ELSE IF Head(a) = Head(b) THEN localeCompare(Tail(a), Tail(b))
    ELSE IF CharRank(Head(a)) < CharRank(Head(b)) THEN -1 ELSE 1

\* `(list || [])[0] || ''`
FirstOrEmpty(list) == IF list = <<>> THEN <<>> ELSE list[1]

\* ------------------------------------------------------- filter and sort
\* a predicate that looks at the title alone
MatchesQuery_TitleOnly(chat, lowerQuery) ==
    stringIncludes(toLowerCase(chat.title), lowerQuery)

\* the predicate handed to allChatsData.filter
MatchesQuery(chat, lowerQuery) ==
    \/ stringIncludes(toLowerCase(chat.title), lowerQuery)
    \/ stringIncludes(toLowerCase(join(chat.models)), lowerQuery)
    \/ stringIncludes(toLowerCase(join(chat.tags)), lowerQuery)

RECURSIVE FilterChats(_, _)
FilterChats(data, lowerQuery) ==
    IF data = <<>> THEN <<>>
    ELSE (IF MatchesQuery(Head(data), lowerQuery) THEN <<Head(data)>> ELSE <<>>)
         \o FilterChats(Tail(data), lowerQuery)

\* the comparator handed to sort
Comparison(a, b, by, order) ==
    LET comparison ==
            CASE by = "date"  -> a.updated_at - b.updated_at
              [] by = "model" -> localeCompare(FirstOrEmpty(a.models), FirstOrEmpty(b.models))
              [] by = "tag"   -> localeCompare(FirstOrEmpty(a.tags), FirstOrEmpty(b.tags))
    IN  IF order = "asc" THEN comparison ELSE 0 - comparison

\* a sort that is not stable: x goes in front of its equals
RECURSIVE InsertSorted_Unstable(_, _, _, _)
InsertSorted_Unstable(x, sorted, by, order) ==
    IF sorted = <<>> THEN <<x>>
    ELSE IF Comparison(Head(sorted), x, by, order) >= 0 THEN <<x>> \o sorted
    ELSE <<Head(sorted)>> \o InsertSorted_Unstable(x, Tail(sorted), by, order)

\* Array.prototype.sort is stable: x goes in front of the first element that
\* compares greater than it
RECURSIVE InsertSorted(_, _, _, _)
InsertSorted(x, sorted, by, order) ==
    IF sorted = <<>> THEN <<x>>
    ELSE IF Comparison(Head(sorted), x, by, order) > 0 THEN <<x>> \o sorted
    ELSE <<Head(sorted)>> \o InsertSorted(x, Tail(sorted), by, order)

RECURSIVE SortChats(_, _, _)
SortChats(data, by, order) ==
    IF data = <<>> THEN <<>>
    ELSE InsertSorted(data[Len(data)],
                      SortChats(SubSeq(data, 1, Len(data) - 1), by, order),
                      by, order)

\* applyFiltersAndSort(): the value it gives filteredChats.  The elements of
\* filteredChats are the objects of allChatsData, held here by their ids.
applyFiltersAndSort(q, by, order, data) ==
    LET filtered == IF trim(q) # <<>> THEN FilterChats(data, toLowerCase(q)) ELSE data
        sorted   == SortChats(filtered, by, order)
    IN  [i \in 1..Len(sorted) |-> sorted[i].id]

\* ------------------------------------------------------------- helpers
\* debounceSearch of Chats.svelte without its clearTimeout
chatsDebounceSearch_NoClear ==
    /\ chatsNextTimer <= MaxChatsTimers
    /\ chatsTimers' = chatsTimers \cup {chatsNextTimer}
    /\ chatsDebounceTimer' = chatsNextTimer
    /\ chatsNextTimer' = chatsNextTimer + 1

\* debounceSearch(callback) of Chats.svelte
chatsDebounceSearch ==
    /\ chatsNextTimer <= MaxChatsTimers
    /\ chatsTimers' = (IF chatsDebounceTimer # NoTimer
                       THEN chatsTimers \ {chatsDebounceTimer}
                       ELSE chatsTimers) \cup {chatsNextTimer}
    /\ chatsDebounceTimer' = chatsNextTimer
    /\ chatsNextTimer' = chatsNextTimer + 1

\* filter(Boolean): the empty string is the falsy one
RECURSIVE FilterTruthy(_)
FilterTruthy(list) ==
    IF list = <<>> THEN <<>>
    ELSE (IF Head(list) # <<>> THEN <<Head(list)>> ELSE <<>>) \o FilterTruthy(Tail(list))

\* normalizeTags(tagsResponse), the response being an array of strings
normalizeTags(tagsResponse) == FilterTruthy(tagsResponse)

\* the array without the later copies of an element (`new Set`, in insertion order)
RECURSIVE Distinct(_)
Distinct(list) ==
    IF list = <<>> THEN <<>>
    ELSE LET front == Distinct(SubSeq(list, 1, Len(list) - 1))
             last  == list[Len(list)]
         IN  IF arrayIncludes(front, last) THEN front ELSE front \o <<last>>

RECURSIVE Flatten(_)
Flatten(lists) == IF lists = <<>> THEN <<>> ELSE Head(lists) \o Flatten(Tail(lists))

\* what getAllTags returns: every tag some chat carries, once
AllServerTags(chatList, st) ==
    Distinct(Flatten([i \in 1..Len(chatList) |-> st[chatList[i].id]]))

\* one element of `enriched`; `ok` is FALSE when getChatById or getTagsById rejected
Enrich(chat, ok) ==
    [id |-> chat.id, title |-> chat.title, updated_at |-> chat.updated_at,
     models |-> IF ok THEN chat.models ELSE <<>>,
     tags |-> IF ok THEN normalizeTags(serverTags[chat.id]) ELSE <<>>]

\* ------------------------------------------------------------- actions
\* the component state as declared, and the server beside it
InitChats ==
    /\ chatsLoaded = FALSE
    /\ chatsQuery = <<>>
    /\ sortBy = "date"
    /\ sortOrder = "desc"
    /\ allChatsData = <<>>
    /\ allTags = <<>>
    /\ filteredChats = <<>>
    /\ editingTagChatId = NoChat
    /\ selectedTagsForChat = <<>>
    /\ chatsDebounceTimer = NoTimer
    /\ chatsTimers = {}
    /\ chatsNextTimer = 1
    /\ initPhase = "idle"
    /\ serverChats \in {TheChats, TheTaggedChats}
    /\ serverTags = IF serverChats = TheChats THEN TheTags ELSE TheTaggedTags
    /\ commits = {}
    /\ nextCommit = 1
    /\ chatsToast = "none"
    /\ lastEvent = [kind |-> "none"]
    /\ chatsDestroyed = FALSE
    /\ chatsBurstLen = 0 /\ chatsBurstRuns = 0
    /\ appliedQuery = <<>>
    /\ succeeded = {}

\* onMount: loaded = true, init() up to its first await, then the two reactive
\* blocks, which `loaded` has invalidated: the timer, and applyFiltersAndSort()
ChatsOnMount ==
    /\ UNCHANGED knowledgeVars
    /\ ~chatsLoaded /\ ~chatsDestroyed
    /\ chatsLoaded' = TRUE
    /\ initPhase' = "list"
    /\ chatsDebounceSearch
    /\ filteredChats' = applyFiltersAndSort(chatsQuery, sortBy, sortOrder, allChatsData)
    /\ chatsBurstLen' = 0 /\ chatsBurstRuns' = 0
    /\ appliedQuery' = chatsQuery
    /\ chatsToast' = "none"
    /\ UNCHANGED <<chatsQuery, sortBy, sortOrder, serverChats, chatsDestroyed,
                   allChatsData, allTags, editingTagChatId, selectedTagsForChat,
                   serverTags, commits, nextCommit, lastEvent, succeeded, diffVars>>

\* init(): getChatList and getAllTags have resolved; the requests for every
\* chat are sent
ChatsInitListResolved ==
    /\ UNCHANGED knowledgeVars
    /\ initPhase = "list"
    /\ initPhase' = "enrich"
    /\ allTags' = AllServerTags(serverChats, serverTags)
    /\ chatsToast' = "none"
    /\ UNCHANGED <<chatsLoaded, chatsQuery, sortBy, sortOrder, filteredChats,
                   chatsDebounceTimer, chatsTimers, chatsNextTimer, serverChats,
                   chatsDestroyed, allChatsData, editingTagChatId,
                   selectedTagsForChat, serverTags, commits, nextCommit, lastEvent, chatsBurstVars, appliedQuery, succeeded, diffVars>>

\* init(): getChatList or getAllTags has rejected
ChatsInitListFailed ==
    /\ UNCHANGED knowledgeVars
    /\ initPhase = "list"
    /\ initPhase' = "failed"
    /\ chatsToast' = "error"
    /\ UNCHANGED <<chatsLoaded, chatsQuery, sortBy, sortOrder, filteredChats,
                   chatsDebounceTimer, chatsTimers, chatsNextTimer, serverChats,
                   chatsDestroyed, allChatsData, allTags, editingTagChatId,
                   selectedTagsForChat, serverTags, commits, nextCommit, lastEvent, chatsBurstVars, appliedQuery, succeeded, diffVars>>

\* init(): the requests for every chat have settled, those of the chats in
\* `failed` by rejecting
ChatsInitEnriched(failed) ==
    /\ UNCHANGED knowledgeVars
    /\ initPhase = "enrich"
    /\ initPhase' = "done"
    /\ allChatsData' = [i \in 1..Len(serverChats) |->
                           Enrich(serverChats[i], serverChats[i].id \notin failed)]
    /\ filteredChats' = applyFiltersAndSort(chatsQuery, sortBy, sortOrder, allChatsData')
    /\ appliedQuery' = chatsQuery
    /\ chatsToast' = "none"
    /\ UNCHANGED <<chatsLoaded, chatsQuery, sortBy, sortOrder,
                   chatsDebounceTimer, chatsTimers, chatsNextTimer, serverChats,
                   chatsDestroyed, allTags, editingTagChatId,
                   selectedTagsForChat, serverTags, commits, nextCommit, lastEvent, chatsBurstVars, succeeded, diffVars>>

\* the search box (bind:value, the clear button) and the reactive block on `query`
ChatsQueryChanged(t) ==
    /\ UNCHANGED knowledgeVars
    /\ chatsLoaded /\ ~chatsDestroyed
    /\ t # chatsQuery
    /\ chatsQuery' = t
    /\ chatsDebounceSearch
    /\ IF chatsTimers = {}
       THEN chatsBurstLen' = 1 /\ chatsBurstRuns' = 0
       ELSE chatsBurstLen' = chatsBurstLen + 1 /\ UNCHANGED chatsBurstRuns
    /\ chatsToast' = "none"
    /\ UNCHANGED <<chatsLoaded, sortBy, sortOrder, filteredChats, initPhase,
                   serverChats, chatsDestroyed, tagVarsButToast, appliedQuery, diffVars>>

\* the callback handed to debounceSearch, run when its timer elapses
ChatsTimerFired(id) ==
    /\ UNCHANGED knowledgeVars
    /\ id \in chatsTimers
    /\ chatsTimers' = chatsTimers \ {id}
    /\ filteredChats' = applyFiltersAndSort(chatsQuery, sortBy, sortOrder, allChatsData)
    /\ chatsBurstRuns' = chatsBurstRuns + 1
    /\ appliedQuery' = chatsQuery
    /\ chatsToast' = "none"
    /\ UNCHANGED <<chatsLoaded, chatsQuery, sortBy, sortOrder, chatsDebounceTimer,
                   chatsNextTimer, initPhase, serverChats, chatsDestroyed,
                   tagVarsButToast, chatsBurstLen, diffVars>>

\* an option of the "Sort by" list, and the reactive block on sortBy / sortOrder
SortByChanged(option) ==
    /\ UNCHANGED knowledgeVars
    /\ chatsLoaded /\ ~chatsDestroyed
    /\ option # sortBy
    /\ sortBy' = option
    /\ filteredChats' = applyFiltersAndSort(chatsQuery, option, sortOrder, allChatsData)
    /\ appliedQuery' = chatsQuery
    /\ chatsToast' = "none"
    /\ UNCHANGED <<chatsLoaded, chatsQuery, sortOrder, chatsDebounceTimer,
                   chatsTimers, chatsNextTimer, initPhase, serverChats,
                   chatsDestroyed, tagVarsButToast, chatsBurstVars, diffVars>>

\* an option of the "Sort order" list, and the same reactive block
SortOrderChanged(order) ==
    /\ UNCHANGED knowledgeVars
    /\ chatsLoaded /\ ~chatsDestroyed
    /\ order # sortOrder
    /\ sortOrder' = order
    /\ filteredChats' = applyFiltersAndSort(chatsQuery, sortBy, order, allChatsData)
    /\ appliedQuery' = chatsQuery
    /\ chatsToast' = "none"
    /\ UNCHANGED <<chatsLoaded, chatsQuery, sortBy, chatsDebounceTimer,
                   chatsTimers, chatsNextTimer, initPhase, serverChats,
                   chatsDestroyed, tagVarsButToast, chatsBurstVars, diffVars>>

\* the component is destroyed; Chats.svelte registers no onDestroy
ChatsDestroy ==
    /\ UNCHANGED knowledgeVars
    /\ chatsLoaded /\ ~chatsDestroyed
    /\ chatsDestroyed' = TRUE
    /\ chatsToast' = "none"
    /\ UNCHANGED <<chatsLoaded, chatsQuery, sortBy, sortOrder, filteredChats,
                   chatsDebounceTimer, chatsTimers, chatsNextTimer, initPhase,
                   serverChats, tagVarsButToast, chatsBurstVars, appliedQuery, diffVars>>

NextChats ==
    \/ ChatsOnMount
    \/ ChatsInitListResolved
    \/ ChatsInitListFailed
    \/ \E failed \in EnrichFailures : ChatsInitEnriched(failed)
    \/ \E t \in ChatTexts : ChatsQueryChanged(t)
    \/ \E id \in chatsTimers : ChatsTimerFired(id)
    \/ \E option \in SortKeys : SortByChanged(option)
    \/ \E order \in SortOrders : SortOrderChanged(order)
    \/ ChatsDestroy

\* ------------------------------------------------------------ the tag diff
MaxTagList == 2

\* tag names as they may be handed to the diff: empty, blank, padded, plain
TagStrings == {<<>>, <<" ">>, <<"a">>, <<" ", "a">>, <<"b">>}

\* the arrays of at most MaxTagList of them
TagLists == UNION {[1..n -> TagStrings] : n \in 0..MaxTagList}

\* diffIn and diffOut while there is no input, no result
NoDiff == <<>>

\* viewIn and viewOut while there is no input, no result
NoView == <<>>

\* `.map((t) => t?.trim())`
RECURSIVE MapTrim(_)
MapTrim(list) ==
    IF list = <<>> THEN <<>> ELSE <<trim(Head(list))>> \o MapTrim(Tail(list))

\* newTags without the trim
normalizeSelected_NoTrim(selected) == Distinct(FilterTruthy(selected))

\* newTags: the selected tags trimmed, the empty ones dropped, each once
normalizeSelected(selected) == Distinct(FilterTruthy(MapTrim(selected)))

\* `a.filter((tag) => !b.includes(tag))`
RECURSIVE Without(_, _)
Without(a, b) ==
    IF a = <<>> THEN <<>>
    ELSE (IF arrayIncludes(b, Head(a)) THEN <<>> ELSE <<Head(a)>>) \o Without(Tail(a), b)

\* saveTag(), lines 237-249: tagsToRemove and tagsToAdd
TagDiff(currentTags, selected) ==
    LET newTags == normalizeSelected(selected)
    IN  [toRemove |-> Without(currentTags, newTags),
         toAdd    |-> Without(newTags, currentTags)]

\* any baseline and any edited list
InitDiff ==
    /\ Init
    /\ InitChats /\ serverChats = TheChats
    /\ diffIn \in [baseline : TagLists, edited : TagLists]
    /\ diffOut = NoDiff
    /\ viewIn = NoView /\ viewOut = NoView

\* the diff of saveTag() applied to them
ComputeDiff ==
    /\ diffOut = NoDiff
    /\ diffOut' = TagDiff(diffIn.baseline, diffIn.edited)
    /\ UNCHANGED <<knowledgeVars, listVars, tagVars, diffIn, viewIn, viewOut>>

NextDiff == ComputeDiff

SpecDiff == InitDiff /\ [][NextDiff]_vars

\* both screens as constructed
InitScreens ==
    /\ Init
    /\ InitChats /\ serverChats = TheChats
    /\ diffIn = NoDiff /\ diffOut = NoDiff
    /\ viewIn = NoView /\ viewOut = NoView

\* the same with the collection whose tags are edited
InitTagged ==
    /\ Init
    /\ InitChats /\ serverChats = TheTaggedChats
    /\ diffIn = NoDiff /\ diffOut = NoDiff
    /\ viewIn = NoView /\ viewOut = NoView

SpecChats == InitScreens /\ [][NextChats]_vars

\* ------------------------------------------------ the derived view alone
MaxViewChats == 3

\* the texts of the search box: empty, upper case, blank, with a blank inside
\* or in front, plain
ViewTexts == {<<>>, <<"A">>, <<" ">>, <<"a", " ", "b">>, <<" ", "a">>, <<"b">>}

\* enriched chats, without their ids: equal and different times, first models
\* and first tags, lists of none, one and two, a padded tag
SampleChats ==
    { [title |-> <<"A", "b">>, updated_at |-> 2, models |-> << <<"b">> >>,
       tags |-> << <<"a">> >>],
      [title |-> <<"b">>, updated_at |-> 1, models |-> << <<"a">>, <<"b">> >>,
       tags |-> << <<"b">>, <<"a">> >>],
      [title |-> <<>>, updated_at |-> 2, models |-> << >>,
       tags |-> << <<" ", "a">> >>],
      [title |-> <<"b">>, updated_at |-> 1, models |-> << <<"b">> >>,
       tags |-> << >>] }

\* allChatsData: at most MaxViewChats of them, each with its own id
Collections ==
    LET Numbered(c) == [i \in 1..Len(c) |->
                           [id |-> i, title |-> c[i].title, updated_at |-> c[i].updated_at,
                            models |-> c[i].models, tags |-> c[i].tags]]
    IN  {Numbered(c) : c \in UNION {[1..n -> SampleChats] : n \in 0..MaxViewChats}}

InitView ==
    /\ Init
    /\ InitChats /\ serverChats = TheChats
    /\ diffIn = NoDiff /\ diffOut = NoDiff
    /\ viewIn \in [data : Collections, query : ViewTexts,
                   sortBy : SortKeys, sortOrder : SortOrders]
    /\ viewOut = NoView

\* applyFiltersAndSort() on that state
ComputeView ==
    /\ UNCHANGED knowledgeVars
    /\ viewOut = NoView
    /\ viewOut' = [view |-> applyFiltersAndSort(viewIn.query, viewIn.sortBy,
                                                viewIn.sortOrder, viewIn.data)]
    /\ UNCHANGED <<listVars, tagVars, diffIn, diffOut, viewIn>>

NextView == ComputeView

SpecView == InitView /\ [][NextView]_vars

\* ------------------------------------------------------------ tag editing
MaxCommits == 1

\* the saveTag() calls where one follows another
MaxRecommits == 2

\* the object of allChatsData with this id (`allChatsData.find`)
ChatById(data, c) == data[CHOOSE i \in 1..Len(data) : data[i].id = c]

\* `chat.tags = updatedTags`: the object is the one allChatsData holds
WithTags(data, c, tags) ==
    [i \in 1..Len(data) |-> IF data[i].id = c THEN [data[i] EXCEPT !.tags = tags]
                            ELSE data[i]]

\* deleteTagById / addTagById taking effect on the server
ServerRemove(st, c, tag) == [st EXCEPT ![c] = Without(st[c], <<tag>>)]
ServerAdd(st, c, tag) ==
    [st EXCEPT ![c] = IF arrayIncludes(st[c], tag) THEN st[c] ELSE st[c] \o <<tag>>]

\* a saveTag() call that has not returned, or whose requests have not all
\* settled: the requests pending, where the call stands, and what happened
\* to it so far
Commit(id, c, currentTags, selected) ==
    LET diff == TagDiff(currentTags, selected)
    IN  [id |-> id, chat |-> c,
         currentTags |-> currentTags, newTags |-> normalizeSelected(selected),
         removes |-> Elements(diff.toRemove), adds |-> Elements(diff.toAdd),
         phase |-> IF diff.toRemove = <<>> /\ diff.toAdd = <<>>
                   THEN "reread" ELSE "mutating",
         removeFailed |-> FALSE, addFailed |-> FALSE, reread |-> "none"]

\* lastEvent: no request settled in the step, or this request of commit k did
NoEvent == [kind |-> "none"]
Event(kind, tag, ok, k) == [kind |-> kind, tag |-> tag, ok |-> ok, commit |-> k]

\* every request of the batch rejects when it fails: no `.catch(() => {})`
Rejects_NoCatch(kind, ok) == ~ok

\* whether the promise of a request in the Promise.all rejects: a failed
\* remove is caught, a failed add is not
Rejects(kind, ok) == kind = "add" /\ ~ok

\* the await goes on as soon as one request has settled
PromiseAll_First(k) == "reread"

\* `await Promise.all([...])` with none rejected: goes on to the re-read once
\* every request has settled
PromiseAll(k) == IF k.removes = {} /\ k.adds = {} THEN "reread" ELSE "mutating"

\* the tag button of a chat that is not being edited
StartEditTag(c) ==
    /\ UNCHANGED knowledgeVars
    /\ ~chatsDestroyed
    /\ arrayIncludes(filteredChats, c)
    /\ editingTagChatId # c
    /\ editingTagChatId' = c
    /\ selectedTagsForChat' = ChatById(allChatsData, c).tags
    /\ chatsToast' = "none"
    /\ lastEvent' = NoEvent
    /\ UNCHANGED <<listVars, allChatsData, allTags, serverTags, commits,
                   nextCommit, succeeded, diffVars>>

\* the X button of the tag editor
CancelEditTag ==
    /\ UNCHANGED knowledgeVars
    /\ ~chatsDestroyed
    /\ arrayIncludes(filteredChats, editingTagChatId)
    /\ editingTagChatId' = NoChat
    /\ selectedTagsForChat' = <<>>
    /\ chatsToast' = "none"
    /\ lastEvent' = NoEvent
    /\ UNCHANGED <<listVars, allChatsData, allTags, serverTags, commits,
                   nextCommit, succeeded, diffVars>>

\* a tag button that edits the chat's own list: no copy was taken
ToggleTag_InPlace(tagValue) ==
    /\ UNCHANGED knowledgeVars
    /\ ~chatsDestroyed
    /\ arrayIncludes(filteredChats, editingTagChatId)
    /\ arrayIncludes(allTags, tagValue) /\ tagValue # <<>>
    /\ selectedTagsForChat' =
           IF arrayIncludes(selectedTagsForChat, tagValue)
           THEN Without(selectedTagsForChat, <<tagValue>>)
           ELSE selectedTagsForChat \o <<tagValue>>
    /\ allChatsData' = WithTags(allChatsData, editingTagChatId, selectedTagsForChat')
    /\ chatsToast' = "none"
    /\ lastEvent' = NoEvent
    /\ UNCHANGED <<listVars, allTags, editingTagChatId, serverTags,
                   commits, nextCommit, succeeded, diffVars>>

\* one of the tag buttons of the editor, one per truthy element of allTags
ToggleTag(tagValue) ==
    /\ UNCHANGED knowledgeVars
    /\ ~chatsDestroyed
    /\ arrayIncludes(filteredChats, editingTagChatId)
    /\ arrayIncludes(allTags, tagValue) /\ tagValue # <<>>
    /\ selectedTagsForChat' =
           IF arrayIncludes(selectedTagsForChat, tagValue)
           THEN Without(selectedTagsForChat, <<tagValue>>)
           ELSE selectedTagsForChat \o <<tagValue>>
    /\ chatsToast' = "none"
    /\ lastEvent' = NoEvent
    /\ UNCHANGED <<listVars, allChatsData, allTags, editingTagChatId, serverTags,
                   commits, nextCommit, succeeded, diffVars>>

\* the "Clear" button of the editor
ClearSelectedTags ==
    /\ UNCHANGED knowledgeVars
    /\ ~chatsDestroyed
    /\ arrayIncludes(filteredChats, editingTagChatId)
    /\ selectedTagsForChat # <<>>
    /\ selectedTagsForChat' = <<>>
    /\ chatsToast' = "none"
    /\ lastEvent' = NoEvent
    /\ UNCHANGED <<listVars, allChatsData, allTags, editingTagChatId, serverTags,
                   commits, nextCommit, succeeded, diffVars>>

\* saveTag(chatId) up to its first await: the diff, and every request sent;
\* `limit` bounds the number of calls
SaveTagUpTo(c, limit) ==
    /\ UNCHANGED knowledgeVars
    /\ ~chatsDestroyed
    /\ arrayIncludes(filteredChats, c)
    /\ editingTagChatId = c
    /\ nextCommit <= limit
    /\ commits' = commits \cup
           {Commit(nextCommit, c, ChatById(allChatsData, c).tags, selectedTagsForChat)}
    /\ nextCommit' = nextCommit + 1
    /\ chatsToast' = "none"
    /\ lastEvent' = NoEvent
    /\ UNCHANGED <<listVars, allChatsData, allTags, editingTagChatId,
                   selectedTagsForChat, serverTags, succeeded, diffVars>>

\* the save button of the editor
SaveTag(c) == SaveTagUpTo(c, MaxCommits)

\* the save button once more: while the first call is running, or after it
SaveTagAgain(c) == SaveTagUpTo(c, MaxRecommits)

\* the commit as one of its requests leaves it
Settle(k, kind, tag, ok) ==
    LET j == IF kind = "remove"
             THEN [k EXCEPT !.removes = @ \ {tag}, !.removeFailed = @ \/ ~ok]
             ELSE [k EXCEPT !.adds = @ \ {tag}, !.addFailed = @ \/ ~ok]
    IN  [j EXCEPT !.phase = IF k.phase # "mutating" THEN k.phase
                            ELSE IF Rejects(kind, ok) THEN "failed"
                            ELSE PromiseAll(j)]

\* a commit that has returned and has no request pending is gone
Live(S) == {k \in S : ~(k.phase = "failed" /\ k.removes = {} /\ k.adds = {})}

\* a deleteTagById or addTagById request settles; a rejection that reaches
\* the Promise.all takes saveTag() to its catch
TagRequestSettled(k, kind, tag, ok) ==
    /\ UNCHANGED knowledgeVars
    /\ k \in commits
    /\ tag \in (IF kind = "remove" THEN k.removes ELSE k.adds)
    /\ serverTags' = IF ~ok THEN serverTags
                     ELSE IF kind = "remove" THEN ServerRemove(serverTags, k.chat, tag)
                     ELSE ServerAdd(serverTags, k.chat, tag)
    /\ commits' = Live((commits \ {k}) \cup {Settle(k, kind, tag, ok)})
    /\ chatsToast' = IF k.phase = "mutating" /\ Settle(k, kind, tag, ok).phase = "failed"
                     THEN "error" ELSE "none"
    /\ succeeded' = IF k.phase = "mutating" /\ Settle(k, kind, tag, ok).phase = "failed"
                    THEN succeeded \ {k.chat} ELSE succeeded
    /\ lastEvent' = Event(kind, tag, ok, k)
    /\ UNCHANGED <<listVars, allChatsData, allTags, editingTagChatId,
                   selectedTagsForChat, nextCommit, diffVars>>

\* getTagsById resolves: chat.tags = updatedTags, then getAllTags is sent
RereadResolved(k) ==
    /\ UNCHANGED knowledgeVars
    /\ k \in commits /\ k.phase = "reread"
    /\ allChatsData' = WithTags(allChatsData, k.chat, normalizeTags(serverTags[k.chat]))
    /\ commits' = (commits \ {k}) \cup {[k EXCEPT !.phase = "alltags", !.reread = "ok"]}
    /\ chatsToast' = "none"
    /\ lastEvent' = Event("reread", <<>>, TRUE, k)
    /\ UNCHANGED <<listVars, allTags, editingTagChatId, selectedTagsForChat,
                   serverTags, nextCommit, succeeded, diffVars>>

\* getTagsById rejects and saveTag() goes on as if it had resolved with nothing
RereadFailed_Swallowed(k) ==
    /\ UNCHANGED knowledgeVars
    /\ k \in commits /\ k.phase = "reread"
    /\ allChatsData' = WithTags(allChatsData, k.chat, <<>>)
    /\ commits' = (commits \ {k}) \cup {[k EXCEPT !.phase = "alltags", !.reread = "failed"]}
    /\ chatsToast' = "none"
    /\ lastEvent' = Event("reread", <<>>, FALSE, k)
    /\ UNCHANGED <<listVars, allTags, editingTagChatId, selectedTagsForChat,
                   serverTags, nextCommit, succeeded, diffVars>>

\* getTagsById rejects: the catch
RereadFailed(k) ==
    /\ UNCHANGED knowledgeVars
    /\ k \in commits /\ k.phase = "reread"
    /\ commits' = Live((commits \ {k}) \cup {[k EXCEPT !.phase = "failed", !.reread = "failed"]})
    /\ chatsToast' = "error"
    /\ succeeded' = succeeded \ {k.chat}
    /\ lastEvent' = Event("reread", <<>>, FALSE, k)
    /\ UNCHANGED <<listVars, allChatsData, allTags, editingTagChatId,
                   selectedTagsForChat, serverTags, nextCommit, diffVars>>

\* getAllTags resolves: the rest of the try block
AllTagsResolved(k) ==
    /\ UNCHANGED knowledgeVars
    /\ k \in commits /\ k.phase = "alltags"
    /\ allTags' = AllServerTags(serverChats, serverTags)
    /\ filteredChats' = applyFiltersAndSort(chatsQuery, sortBy, sortOrder, allChatsData)
    /\ editingTagChatId' = NoChat
    /\ selectedTagsForChat' = <<>>
    /\ commits' = commits \ {k}
    /\ chatsToast' = "success"
    /\ succeeded' = succeeded \cup {k.chat}
    /\ appliedQuery' = chatsQuery
    /\ lastEvent' = Event("alltags", <<>>, TRUE, k)
    /\ UNCHANGED <<chatsLoaded, chatsQuery, sortBy, sortOrder, chatsDebounceTimer,
                   chatsTimers, chatsNextTimer, initPhase, serverChats,
                   chatsDestroyed, allChatsData, serverTags, nextCommit, chatsBurstVars, diffVars>>

\* getAllTags rejects: the catch
AllTagsFailed(k) ==
    /\ UNCHANGED knowledgeVars
    /\ k \in commits /\ k.phase = "alltags"
    /\ commits' = commits \ {k}
    /\ chatsToast' = "error"
    /\ succeeded' = succeeded \ {k.chat}
    /\ lastEvent' = Event("alltags", <<>>, FALSE, k)
    /\ UNCHANGED <<listVars, allChatsData, allTags, editingTagChatId,
                   selectedTagsForChat, serverTags, nextCommit, diffVars>>

NextTags ==
    \/ ChatsOnMount
    \/ ChatsInitListResolved
    \/ ChatsInitListFailed
    \/ \E failed \in EnrichFailures : ChatsInitEnriched(failed)
    \/ \E c \in ChatIds : StartEditTag(c)
    \/ CancelEditTag
    \/ \E tagValue \in TagStrings : ToggleTag(tagValue)
    \/ ClearSelectedTags
    \/ \E c \in ChatIds : SaveTag(c)
    \/ \E k \in commits, kind \in {"remove", "add"}, tag \in TagStrings, ok \in BOOLEAN :
           TagRequestSettled(k, kind, tag, ok)
    \/ \E k \in commits : RereadResolved(k)
    \/ \E k \in commits : RereadFailed(k)
    \/ \E k \in commits : AllTagsResolved(k)
    \/ \E k \in commits : AllTagsFailed(k)

SpecTags == InitTagged /\ [][NextTags]_vars

\* the tag editor with the save button pressed up to MaxRecommits times, on a
\* collection that loaded whole
NextRecommit ==
    \/ ChatsOnMount
    \/ ChatsInitListResolved
    \/ ChatsInitListFailed
    \/ ChatsInitEnriched({})
    \/ \E c \in ChatIds : StartEditTag(c)
    \/ CancelEditTag
    \/ \E tagValue \in TagStrings : ToggleTag(tagValue)
    \/ ClearSelectedTags
    \/ \E c \in ChatIds : SaveTagAgain(c)
    \/ \E k \in commits, kind \in {"remove", "add"}, tag \in TagStrings, ok \in BOOLEAN :
           TagRequestSettled(k, kind, tag, ok)
    \/ \E k \in commits : RereadResolved(k)
    \/ \E k \in commits : RereadFailed(k)
    \/ \E k \in commits : AllTagsResolved(k)
    \/ \E k \in commits : AllTagsFailed(k)

SpecRecommit == InitTagged /\ [][NextRecommit]_vars

\* ------------------------------------------------- Knowledge.svelte, whole
Next ==
    \/ \E stored \in ViewOptions : OnMount(stored)
    \/ \E t \in Texts : QueryChanged(t)
    \/ \E id \in timers : TimerFired(id)
    \/ \E v \in ViewOptions : ViewOptionChanged(v)
    \/ LoadMoreCall
    \/ LoadMoreClick
    \/ \E r \in inflight : FetchResolved(r)
    \/ \E r \in inflight : FetchFailed(r)
    \/ \E item \in Records : DeleteSucceeded(item)
    \/ \E item \in Records : DeleteFailed(item)
    \/ OnDestroy

Spec == InitScreens /\ [][Next]_vars

\* the screen with its text and filter left alone, every request resolving
\* and the user loading more for as long as there is more
NextLoadAll ==
    \/ \E stored \in ViewOptions : OnMount(stored)
    \/ LoadMoreCall
    \/ LoadMoreClick
    \/ \E r \in inflight : FetchResolved(r)
    \/ \E item \in Records : DeleteFailed(item)

FairLoadAll ==
    /\ WF_vars(\E stored \in ViewOptions : OnMount(stored))
    /\ WF_vars(LoadMoreCall)
    /\ WF_vars(\E r \in inflight : FetchResolved(r))

\* the screen opened on a server that holds any of the records
InitLoadAll ==
    /\ InitComponent
    /\ db \in SUBSET Records
    /\ InitChats /\ serverChats = TheChats
    /\ diffIn = NoDiff /\ diffOut = NoDiff
    /\ viewIn = NoView /\ viewOut = NoView

SpecLoadAll == InitLoadAll /\ [][NextLoadAll]_vars /\ FairLoadAll

TypeOK ==
    /\ loaded \in BOOLEAN /\ destroyed \in BOOLEAN
    /\ page \in 1..(MaxRequests + 1)
    /\ query \in Texts /\ lastQuery \in Texts
    /\ viewOption \in ViewOptions /\ lastViewOption \in ViewOptions
    /\ items.tag \in {"null", "undefined", "array"}
    /\ total.tag \in {"null", "undefined", "number"}
    /\ timers \subseteq 1..MaxTimers
    /\ searchDebounceTimer \in 0..MaxTimers
    /\ db \subseteq Records
    /\ toast \in {"none", "success", "error"}
    /\ lastCall \in {"none", "query", "viewOption", "loadMoreItems"}

\* ------------------------------------------------------------ properties
\* r leaves the set of calls in flight in this step: it resolved or rejected
Settled(r) == r \in inflight /\ r \notin inflight'

\* the step runs the debounce callback: a pending timer goes, the handle stays
\* (the filter change and onDestroy null the handle, a text change replaces it)
TimerStep ==
    /\ timers' # timers
    /\ timers' \subseteq timers
    /\ searchDebounceTimer' = searchDebounceTimer

\* the declared total, -1 when it is not known (null or undefined)
KnownTotal(t) == IF t.tag = "number" THEN t.n ELSE -1

NoDuplicates(s) == \A i, j \in 1..Len(s) : i # j => s[i] # s[j]

\* C1: a fetch issued before the latest reset, settling after it, is discarded:
\* it changes neither the accumulated items, nor the declared total, nor the
\* exhausted flag.
C1_StaleResponseDiscarded ==
    [][\A r \in inflight :
          (Settled(r) /\ r.epoch # epoch) =>
              UNCHANGED <<items, total, allItemsLoaded>>]_vars

\* C2: during a burst of text changes at most one debounce timer is pending and
\* no fetch is issued; when the timer of the burst runs, exactly one fetch is
\* issued, for page 1 and with the text of the last change.
C2_BurstState ==
    /\ Cardinality(timers) <= 1
    /\ burstFetches <= 1
    /\ timers # {} =>
          /\ timers = {searchDebounceTimer}
          /\ burstLen >= 1
          /\ burstFetches = 0
          /\ query = lastQuery

C2_BurstStep ==
    /\ lastCall' = "query" => inflight' = inflight
    /\ TimerStep =>
          /\ timers' = {}
          /\ burstFetches' = 1
          /\ \E r \in inflight' :
                /\ r \notin inflight
                /\ inflight' = inflight \cup {r}
                /\ r.query = query /\ r.viewOption = viewOption /\ r.page = 1

C2_DebounceOneFetch == [](C2_BurstState) /\ [][C2_BurstStep]_vars

\* C2 witness: a burst of two or more changes has ended in its one fetch
C2_Witness ==
    /\ burstLen >= 2
    /\ burstFetches = 1
    /\ timers = {}
    /\ \E r \in inflight : r.epoch = epoch /\ r.query = query /\ r.page = 1

\* C3: a fetch for page N+1 of the current query is in flight only when no
\* fetch for an earlier page of that query is still in flight.
C3_PageOrder ==
    \A r \in inflight :
        (r.epoch = epoch /\ r.page > 1) =>
            ~ \E s \in inflight : s.epoch = epoch /\ s.page < r.page

\* C4: while a fetch started by loadMoreItems for the current query has not
\* settled, a further call of loadMoreItems returns early: no second fetch, no
\* second increment of the page cursor.
C4_InFlightGuard ==
    (\E r \in inflight : r.epoch = epoch /\ r.page > 1) => ~CanLoadMore

\* C5: a failed page fetch leaves the accumulated items and the declared total
\* as they were (null and undefined both count as "no list", "no total"), and
\* the page cursor below the page that failed.  Stated for the fetches of the
\* current query only.
C5_FailureLeavesState ==
    [][\A r \in inflight :
          (FetchFailed(r) /\ r.epoch = epoch) =>
              /\ items'.arr = items.arr
              /\ KnownTotal(total') = KnownTotal(total)
              /\ r.page > 1 => page' < r.page]_vars

\* C6: a failed page fetch of the current query clears the loading flag and is
\* reported through the notification sink.
C6_FailureReported ==
    [][\A r \in inflight :
          (FetchFailed(r) /\ r.epoch = epoch) =>
              (~itemsLoading' /\ toast' = "error")]_vars

\* C7: once a page has been applied since the last reset, allItemsLoaded is
\* TRUE exactly when that page was empty or the total is known and reached;
\* "Load More" is offered only when allItemsLoaded is FALSE.
C7_ExhaustionRule ==
    /\ lastPageCount # -1 =>
          (allItemsLoaded <=>
              \/ lastPageCount = 0
              \/ (total.tag = "number" /\ Len(items.arr) >= total.n))
    /\ LoadMoreOffered => ~allItemsLoaded

C9_CountWithinTotal ==
    KnownTotal(total) # -1 => Len(items.arr) <= KnownTotal(total)

\* C10: the accumulated item list holds no record twice (the server's pages
\* for one query are disjoint: PageOf cuts one strictly increasing list).
C10_NoDuplicateItems == NoDuplicates(items.arr)

\* a step in which the filter is set to a value that differs from the current one
FilterChanged == lastCall' = "viewOption" /\ viewOption' # viewOption

\* the one request a step has sent, as the set of requests new in `inflight`
Sent == inflight' \ inflight

\* C11: a change of the filter reloads in the same step (no timer is started
\* for it) with the new filter and the current text, and it first cancels the
\* pending text timer: no timer is left pending after the step, so no fetch of
\* a timer started before the change can follow it.
C11_FilterImmediate ==
    [][FilterChanged =>
          /\ timers' = {}
          /\ searchDebounceTimer' = NoTimer
          /\ nextTimer' = nextTimer
          /\ query' = query
          /\ Sent = {Request(query, viewOption', 1, epoch')}
          /\ epoch' = epoch + 1]_vars

\* the filter was changed while the only timer ever started was pending: two
\* requests were sent (mount, filter change), none by the timer
C11_Witness ==
    /\ lastCall = "viewOption"
    /\ ~destroyed
    /\ nextTimer = 2 /\ timers = {}
    /\ nextReq = 3 /\ epoch = 2
    /\ \E r \in inflight : r.epoch = epoch /\ r.viewOption = viewOption

\* C12: setting the text or the filter to the value it has starts or restarts
\* no timer, sends no request and leaves the page state as it is.
C12_EqualIsNoOp ==
    [][(\/ lastCall' = "query" /\ query' = query
        \/ lastCall' = "viewOption" /\ viewOption' = viewOption)
       => UNCHANGED <<timerVars, pageVars, queryVars, viewVars>>]_vars

\* the text was set to its value while no timer was pending (a change of the
\* text always leaves one pending), with a page loaded
C12_Witness ==
    /\ lastCall = "query"
    /\ timers = {}
    /\ Len(items.arr) > 0

\* C13: every change of the text or the filter that reloads (the debounce
\* callback, the filter change) leaves page 1, no items, no total and not
\* exhausted, and the request it sends is for page 1 of the new query.
C13_ResetBeforeFetch ==
    [][(TimerStep \/ FilterChanged) =>
          /\ page' = 1
          /\ items' = NullItems
          /\ total' = NullTotal
          /\ ~allItemsLoaded'
          /\ ~hasLoadedInitialPage'
          /\ Sent = {Request(query', viewOption', 1, epoch')}]_vars

\* the filter was changed on page 2: the request for page 2 of the old query is
\* still in flight next to the request for page 1 of the new one
C13_Witness ==
    /\ lastCall = "viewOption"
    /\ page = 1 /\ items = NullItems /\ total = NullTotal
    /\ \E r \in inflight : r.epoch = epoch /\ r.page = 1
    /\ \E s \in inflight : s.epoch < epoch /\ s.page > 1

\* C14: once a screen is torn down no debounce timer of it is pending, so no
\* callback of it can run afterwards; for the Knowledge screen and for the
\* Chats screen.
C14_TeardownCancelsTimer ==
    /\ destroyed => timers = {}
    /\ chatsDestroyed => chatsTimers = {}

\* N: the edited tags trimmed, without the empty string, as a set
NormalizedSet(edited) == {trim(t) : t \in Elements(edited)} \ {<<>>}

\* C15: for every baseline and every edited list, toRemove is the baseline
\* minus N and toAdd is N minus the baseline, N being the edited list trimmed
\* with empty strings and duplicates discarded; toAdd and toRemove are disjoint.
C15_TagDiff ==
    diffOut # NoDiff =>
        LET N == NormalizedSet(diffIn.edited)
        IN  /\ Elements(diffOut.toRemove) = Elements(diffIn.baseline) \ N
            /\ Elements(diffOut.toAdd) = N \ Elements(diffIn.baseline)
            /\ NoDuplicates(diffOut.toAdd)
            /\ Elements(diffOut.toAdd) \cap Elements(diffOut.toRemove) = {}

\* a padded and a plain copy of one tag were selected next to a baseline of another
C15_Witness ==
    /\ diffOut # NoDiff
    /\ diffIn.baseline = << <<"b">> >>
    /\ diffIn.edited = << <<" ", "a">>, <<"a">> >>
    /\ diffOut.toAdd = << <<"a">> >>
    /\ diffOut.toRemove = << <<"b">> >>

\* C16: the diff of a baseline against itself adds nothing and removes nothing.
C16_SelfDiffEmpty ==
    (diffOut # NoDiff /\ diffIn.edited = diffIn.baseline) =>
        (diffOut.toAdd = <<>> /\ diffOut.toRemove = <<>>)

\* the commit of the last step's event in the state after it, if it is still there
Now(k) == {j \in commits : j.id = k.id}

\* the last step settled a request of the Promise.all of a commit that was waiting on it
BatchEvent(kind, ok) ==
    /\ lastEvent.kind = kind /\ lastEvent.ok = ok
    /\ lastEvent.commit.phase = "mutating"

\* C17: a remove that fails does not abort the commit (it waits for the rest
\* of the batch or goes on to the re-read, and raises no error); a commit
\* whose requests have all settled without a failed add is at its re-read or
\* past it; an add that fails ends the commit with the error toast, and no
\* commit with a failed add reports success.
C17_RemoveToleratedAddPropagates ==
    /\ BatchEvent("remove", FALSE) =>
           /\ chatsToast # "error"
           /\ \E j \in Now(lastEvent.commit) :
                  j.phase = (IF j.removes = {} /\ j.adds = {} THEN "reread" ELSE "mutating")
    /\ BatchEvent("add", FALSE) =>
           /\ chatsToast = "error"
           /\ \A j \in Now(lastEvent.commit) : j.phase = "failed"
    /\ \A k \in commits :
           /\ (k.removes = {} /\ k.adds = {} /\ ~k.addFailed) => k.phase \in {"reread", "alltags"}
           /\ k.addFailed => k.phase = "failed"
    /\ chatsToast = "success" => ~lastEvent.commit.addFailed

\* a commit of one remove and one add reported success though its remove failed
C17_Witness ==
    /\ chatsToast = "success"
    /\ lastEvent.commit.removeFailed
    /\ lastEvent.commit.newTags # <<>>
    /\ \E tag \in Elements(lastEvent.commit.newTags) :
           ~arrayIncludes(lastEvent.commit.currentTags, tag)

\* C18: when an add of a commit fails, the commit still goes on to re-read the
\* chat's tags: it waits for the rest of the batch or is at its re-read.
C18_RereadAfterAddFailure ==
    BatchEvent("add", FALSE) =>
        \E j \in Now(lastEvent.commit) : j.phase \in {"mutating", "reread"}

\* C19: a commit is at its re-read or past it only when none of its adds and
\* removes is pending, and once its re-read has resolved the chat's local tags
\* are the list the server holds (what the re-read returned), whatever was
\* proposed.
C19_LocalIsServer ==
    /\ \A k \in commits :
           k.phase \in {"reread", "alltags"} => (k.removes = {} /\ k.adds = {})
    /\ (lastEvent.kind = "reread" /\ lastEvent.ok) =>
           /\ lastEvent.commit.removes = {} /\ lastEvent.commit.adds = {}
           /\ ChatById(allChatsData, lastEvent.commit.chat).tags
                  = normalizeTags(serverTags[lastEvent.commit.chat])

\* the re-read of a commit whose remove failed has resolved: the local tags
\* are the server's list, which is not what was proposed
C19_Witness ==
    /\ lastEvent.kind = "reread" /\ lastEvent.ok
    /\ lastEvent.commit.removeFailed
    /\ ChatById(allChatsData, lastEvent.commit.chat).tags = serverTags[lastEvent.commit.chat]
    /\ Elements(serverTags[lastEvent.commit.chat]) # Elements(lastEvent.commit.newTags)

\* C20: the success toast is raised only by a commit whose own re-read resolved.
C20_SuccessNeedsReread ==
    chatsToast = "success" =>
        (lastEvent.kind = "alltags" /\ lastEvent.ok /\ lastEvent.commit.reread = "ok")

\* a commit that changed the chat's tags reported success after its re-read
C20_Witness ==
    /\ chatsToast = "success"
    /\ lastEvent.commit.reread = "ok"
    /\ lastEvent.commit.currentTags # ChatById(allChatsData, lastEvent.commit.chat).tags

\* the last step was the re-read of a commit failing
RereadFailure == lastEvent.kind = "reread" /\ ~lastEvent.ok

\* C21: when the re-read of a commit fails, what is reported is not what a
\* failed add reports (the error toast of C17), and the chat's local tags are
\* not left as they were when the commit started.
C21_RereadFailureDistinct ==
    RereadFailure =>
        /\ chatsToast # "error"
        /\ ChatById(allChatsData, lastEvent.commit.chat).tags # lastEvent.commit.currentTags

\* a step of the tag editor that is not a save: the edit session changes and
\* no request settles
EditStep ==
    /\ lastEvent' = NoEvent
    /\ <<editingTagChatId, selectedTagsForChat>>' # <<editingTagChatId, selectedTagsForChat>>

\* the commits a step issues
Issued == {k \in commits' : \A j \in commits : j.id # k.id}

\* C24: starting an edit, toggling or clearing the selected tags and
\* cancelling leave every chat's tags, the server's tags and the set of
\* commits as they are; a commit is issued only by a save, which is a step of
\* an open edit session that leaves the session as it is.
C24_EditingIsLocal ==
    [][/\ EditStep => UNCHANGED <<allChatsData, serverTags, commits, nextCommit>>
       /\ Issued # {} =>
              /\ editingTagChatId # NoChat
              /\ UNCHANGED <<editingTagChatId, selectedTagsForChat, allChatsData, serverTags>>
              /\ \A k \in Issued :
                     /\ k.chat = editingTagChatId
                     /\ k.currentTags = ChatById(allChatsData, k.chat).tags]_vars

\* an edit session whose selection differs from the chat's tags, with no
\* commit ever issued and every chat's tags still those of the server
C24_Witness ==
    /\ editingTagChatId # NoChat
    /\ initPhase = "done"
    /\ selectedTagsForChat # ChatById(allChatsData, editingTagChatId).tags
    /\ selectedTagsForChat # <<>>
    /\ nextCommit = 1 /\ commits = {}
    /\ \A i \in 1..Len(allChatsData) :
           allChatsData[i].tags = normalizeTags(serverTags[allChatsData[i].id])

\* C28: when the last request of the only commit issued for a chat settles
\* and every add and remove of the commit succeeded, the tags the server
\* holds for the chat are the normalized selection.
C28_ServerEqualsProposed ==
    (/\ lastEvent.kind \in {"remove", "add"}
     /\ lastEvent.commit.phase = "mutating"
     /\ nextCommit = 2) =>
        \A j \in Now(lastEvent.commit) :
            (j.phase = "reread" /\ ~j.removeFailed /\ ~j.addFailed) =>
                Elements(serverTags[j.chat]) = Elements(j.newTags)

\* C30: while a page request is in flight, whichever reset it was sent
\* before, itemsLoading is true.
C30_LoadingWhileInFlight == inflight # {} => itemsLoading

\* text q occurs in text s, both as they are
Occurs(q, s) == \E i \in 0..(Len(s) - Len(q)) : SubSeq(s, i + 1, i + Len(q)) = q

\* the lowercased query occurs in the chat's lowercased title, in its
\* lowercased models joined by blanks, or in its lowercased tags joined by blanks
IsMatch(chat, q) ==
    \E field \in {chat.title, join(chat.models), join(chat.tags)} :
        Occurs(toLowerCase(q), toLowerCase(field))

\* the ids of the chats of the view's input that match its query, and of all
MatchingIds == {i \in 1..Len(viewIn.data) : IsMatch(viewIn.data[i], viewIn.query)}
AllIds == 1..Len(viewIn.data)

\* the view holds exactly the chats of S, each once
ViewIs(S) ==
    /\ Elements(viewOut.view) = S
    /\ Len(viewOut.view) = Cardinality(S)

\* C25 as stated: whatever the collection and the query, the view holds
\* exactly the chats the lowercased query occurs in (title, joined models or
\* joined tags), each once.
C25_ViewIsMatches == viewOut # NoView => ViewIs(MatchingIds)

\* C25 amended: for a query that is not blank (not empty, not made of
\* whitespace only) the view holds exactly the matching chats, each once; for
\* a blank query it holds every chat of the collection, each once.
C25_ViewIsMatchesUnlessBlank ==
    viewOut # NoView =>
        IF trim(viewIn.query) = <<>> THEN ViewIs(AllIds) ELSE ViewIs(MatchingIds)

\* an upper-case query has kept some chats of three and dropped others, one
\* of those kept matching by its models or tags only
C25_Witness ==
    /\ viewOut # NoView
    /\ viewIn.query = <<"A">>
    /\ Len(viewIn.data) = 3
    /\ viewOut.view # <<>> /\ Len(viewOut.view) < 3
    /\ \E i \in Elements(viewOut.view) :
           ~Occurs(<<"a">>, toLowerCase(viewIn.data[i].title))

\* the key the view is sorted by, and the order of two keys (negative, zero
\* or positive): numbers for the update time, localeCompare for the names
SortKey(chat, by) ==
    CASE by = "date"  -> chat.updated_at
      [] by = "model" -> IF chat.models = <<>> THEN <<>> ELSE chat.models[1]
      [] by = "tag"   -> IF chat.tags = <<>> THEN <<>> ELSE chat.tags[1]

KeyOrder(x, y, by) == IF by = "date" THEN x - y ELSE localeCompare(x, y)

\* C26: the view is in the order of the selected key, non-decreasing for asc
\* and non-increasing for desc, and chats with equal keys stand in the view in
\* the order they have in the collection, in both orders; computing the view
\* leaves the collection as it is.
C26_ViewOrder ==
    /\ [](viewOut # NoView =>
            \A i, j \in 1..Len(viewOut.view) :
                i < j =>
                    LET a == viewIn.data[viewOut.view[i]]
                        b == viewIn.data[viewOut.view[j]]
                        o == KeyOrder(SortKey(a, viewIn.sortBy), SortKey(b, viewIn.sortBy),
                                      viewIn.sortBy)
                    IN  /\ viewIn.sortOrder = "asc" => o <= 0
                        /\ viewIn.sortOrder = "desc" => o >= 0
                        /\ o = 0 => a.id < b.id)
    /\ [][viewIn' = viewIn]_vars

\* three chats in descending order of a key two of them share: the view is
\* not in the collection's order, and the two keep theirs
C26_Witness ==
    /\ viewOut # NoView
    /\ viewIn.sortOrder = "desc" /\ viewIn.sortBy = "model"
    /\ Len(viewOut.view) = 3
    /\ viewOut.view # <<1, 2, 3>>
    /\ \E i, j \in 1..3 :
           /\ i < j
           /\ SortKey(viewIn.data[i], "model") = SortKey(viewIn.data[j], "model")
           /\ SortKey(viewIn.data[i], "model") # <<>>

\* the ids of the chats of a collection that a query text shows: all of them
\* for a blank text, the matching ones for any other
Shown(data, q) ==
    {data[i].id : i \in {j \in 1..Len(data) : trim(q) = <<>> \/ IsMatch(data[j], q)}}

\* the step runs the debounce callback of the full-collection screen
ChatsTimerStep ==
    /\ chatsTimers' # chatsTimers
    /\ chatsTimers' \subseteq chatsTimers

\* C27: a change of the query text sends no request and leaves the view as
\* it is; at most one debounce timer is pending, the one started last; when
\* it runs, the callback has run once for the burst, no timer is left, and
\* the view is the one of the text of the last change.
C27_DebounceOneRecompute ==
    /\ [](/\ Cardinality(chatsTimers) <= 1
          /\ chatsBurstRuns <= 1
          /\ chatsTimers # {} =>
                 (chatsTimers = {chatsDebounceTimer} /\ chatsBurstRuns = 0))
    /\ [][/\ chatsQuery' # chatsQuery =>
                 UNCHANGED <<filteredChats, appliedQuery, initPhase, allChatsData,
                             allTags, commits, nextCommit, serverChats, serverTags>>
          /\ ChatsTimerStep =>
                 /\ chatsTimers' = {}
                 /\ chatsBurstRuns' = 1
                 /\ appliedQuery' = chatsQuery
                 /\ chatsQuery' = chatsQuery
                 /\ Elements(filteredChats') = Shown(allChatsData, chatsQuery)
                 /\ Len(filteredChats') = Cardinality(Shown(allChatsData, chatsQuery))]_vars

\* a burst of two or more changes has ended in one run of the callback, which
\* filtered the loaded collection by the last text
C27_Witness ==
    /\ chatsBurstLen >= 2
    /\ chatsBurstRuns = 1
    /\ chatsTimers = {}
    /\ initPhase = "done"
    /\ chatsQuery = <<"A">> /\ appliedQuery = <<"A">>
    /\ filteredChats # <<>>
    /\ Len(filteredChats) < Len(allChatsData)

\* C29: while the debounce timer of a text change is pending, no step but
\* the run of its callback changes the text the view reflects: after a step
\* that leaves the collection as it is (a change of the sort key or order
\* among them) the view still holds the chats that the text applied before
\* the change shows.
C29_ViewKeepsAppliedText ==
    [][(/\ chatsTimers # {} /\ chatsBurstLen >= 1
        /\ ~ChatsTimerStep
        /\ allChatsData' = allChatsData) =>
           Elements(filteredChats') = Shown(allChatsData, appliedQuery)]_vars

\* a commit whose adds and removes have not all settled, or whose re-read
\* has not returned
Outstanding(k) == k.removes # {} \/ k.adds # {} \/ k.phase \in {"mutating", "reread"}

\* C22: no commit of a chat has sent its requests (its adds and removes, or
\* with none of them its re-read) while an earlier commit of the same chat
\* is outstanding.
C22_OneCommitPerChat ==
    \A k, j \in commits : (k.chat = j.chat /\ k.id < j.id) => ~Outstanding(k)

\* C23: a save for a chat whose last commit succeeded, with a selection equal
\* as a set to the chat's tags, sends no request (no add, no remove, no
\* re-read) and reports success.
C23_RepeatedCommitIsNoOp ==
    [][\A k \in Issued :
           (k.chat \in succeeded /\ Elements(k.newTags) = Elements(k.currentTags)) =>
               /\ k.removes = {} /\ k.adds = {}
               /\ k.phase # "reread"
               /\ chatsToast' = "success"]_vars

\* the step ends a saveTag() call: a request of the call settles and the
\* call has returned, with the success toast or through its catch
CommitCompletes ==
    /\ lastEvent'.kind # "none"
    /\ lastEvent'.commit.phase # "failed"
    /\ \A j \in commits' : j.id = lastEvent'.commit.id => j.phase = "failed"

\* C32: a step that ends the commit of one chat while the tag editor is open
\* on another chat leaves the editor on that chat and its selection as it is.
C32_CompletionKeepsOtherSession ==
    [][(/\ CommitCompletes
        /\ editingTagChatId # NoChat
        /\ editingTagChatId # lastEvent'.commit.chat) =>
           UNCHANGED <<editingTagChatId, selectedTagsForChat>>]_vars

\* the server's pages 1 to n for a text and a filter, one after the other
RECURSIVE ServerPages(_, _, _)
ServerPages(q, v, n) ==
    IF n = 0 THEN <<>>
    ELSE ServerPages(q, v, n - 1) \o SearchResponse(db, q, v, n).items

\* C31: while the screen is mounted, with no request in flight, no debounce
\* timer pending and no request for the current text and filter ever
\* rejected, the items are the server's pages 1 to `page` for the current
\* text and filter, in page order.
C31_ItemsArePages ==
    (/\ loaded /\ ~destroyed
     /\ inflight = {}
     /\ timers = {}
     /\ <<query, viewOption>> \notin failedQueries) =>
        items = ArrayItems(ServerPages(query, viewOption, page))

\* every record of the server that the current text and filter select is in
\* the list, in the server's order, the list is marked exhausted and no
\* request is in flight
AllLoaded ==
    /\ allItemsLoaded
    /\ inflight = {}
    /\ items = ArrayItems(Matching(db, query, viewOption))

\* C33: with the text and filter left alone, every request resolving and
\* load-more invoked again and again, the list ends up exhausted with every
\* record of the result in it and stays so, and from an exhausted list with
\* nothing in flight no request is sent.
C33_EventuallyExhausted ==
    /\ <>[]AllLoaded
    /\ [][(allItemsLoaded /\ inflight = {}) => UNCHANGED <<inflight, nextReq, page>>]_vars

\* the list was loaded page by page to the last record
C33_Witness ==
    /\ AllLoaded
    /\ page > 1
    /\ Len(items.arr) = NumRecords
    /\ lastCall = "loadMoreItems"

====
